---------------------------- MODULE Spec2Model ----------------------------
(***************************************************************************)
(* A model of the munchys game: the particle effects (Burst, BlastWave),   *)
(* the Player sprite, the throttle wrapper and the Game loop.              *)
(*                                                                         *)
(* Lengths that the code keeps as floating-point numbers are kept here as  *)
(* integers in fixed units:                                                *)
(*   - a shard radius (rd) and a burn rate are counted in 1/RdScale, so    *)
(*     that the burn rates of the game (0.025 and 0.01) are whole numbers; *)
(*   - a ring width and hue are counted in 1/(2*RdScale), a ring alpha in  *)
(*     1/(400*RdScale);                                                    *)
(*   - a sprite width and height are counted in Half pixels, and a sprite  *)
(*     radius r is kept as radius4 = 4*r in the same unit.                 *)
(* The position of a particle (x, y, vx, vy) only feeds the drawing calls  *)
(* and grows without bound; it is left out of the state.                   *)
(***************************************************************************)
EXTENDS Integers, Sequences, FiniteSets, TLC

VARIABLES
    fx,        \* the effect under test (a Burst or a BlastWave)
    drawn,     \* ids of the particles the last tick() drew, in drawing order
    visited,   \* ids of the particles the last tick() advanced
    lastTick,  \* what the last tick() call did: none | inactive | flagged | ran
    player,    \* the Player sprite
    plLog,     \* the size it was constructed with and the method called last
    now,       \* Date.now(), in milliseconds
    thr,       \* the throttled function under test: its interval and lastCall
    thrOut,    \* what the last call of it did, and when f last ran
    game,      \* the Game object, the frame scheduler and the pending loads
    col,       \* two sprites and what collidesWith() answered for them
    audio      \* the playlist, the sounds paused so far and the call made last

fxVars == <<fx, drawn, visited, lastTick>>
thrVars == <<thr, thrOut>>

gameVars == <<game>>

plVars == <<player, plLog>>

colVars == <<col>>

audioVars == <<audio>>

vars == <<fx, drawn, visited, lastTick, player, plLog, now, thr, thrOut, game,
          col, audio>>

----------------------------------------------------------------------------
(* The clock and the idle values of the machines a specification leaves    *)
(* alone                                                                   *)

Epoch == 1000             \* the clock's reading when the model starts
TimeStep == 100           \* the clock advances in steps of TimeStep ms
MaxTime == 1200           \* the clock is followed for MaxTime ms

NoEffect == [type |-> "none", active |-> FALSE, burnRate |-> 0, n |-> 0, parts |-> <<>>]
NoPlayer == [variant |-> "none"]
NoThrottle == [delay |-> 0, lastCall |-> 0]
NoCall == [ran |-> FALSE, ret |-> "none", ranAt |-> -1]

FxIdle == fx = NoEffect /\ drawn = <<>> /\ visited = {} /\ lastTick = "none"
PlIdle == player = NoPlayer /\ plLog = NoPlayer
ThIdle == thr = NoThrottle /\ thrOut = NoCall
GameIdle == game = [mounted |-> FALSE]
ColIdle == col = [calls |-> 0]
AudioIdle == audio = [playlist |-> <<>>]

----------------------------------------------------------------------------
(* Units and input sets                                                    *)

RdScale == 200            \* units per pixel of shard radius
One == RdScale            \* the threshold 1 of "rd < 1"
RdLo == 5 * RdScale       \* rd: [5, 20]
RdHi == 20 * RdScale
RotSteps == 4             \* the rotation angle is tracked modulo RotSteps steps of 0.1 rad
MaxShards == 2            \* shards of the effect under test

FoodBurnRate == 5         \* burnRate: 0.025
WeedBurnRate == 2         \* burnRate: 0.01

\* the radii the emitter may sample for a shard of the effect under test
RdSamples == {RdLo, RdLo + RdScale, RdLo + 3 * RdScale}

\* the burn rates of the effect under test: those of the game, 2.0 and 2.5
BurnRates == {WeedBurnRate, FoodBurnRate, 2 * RdScale, (5 * RdScale) \div 2}

\* BlastWave inputs: ring widths (pixels) and burn rates (burnRate / 100, in 1/RdScale)
WaveWidths == {2, 50}
WaveBurnRates == {RdScale, (5 * RdScale) \div 2}

Abs(x) == IF x < 0 THEN -x ELSE x

\* Array.prototype.splice(i, 1) at the 1-based position i
Splice(s, i) == SubSeq(s, 1, i - 1) \o SubSeq(s, i + 1, Len(s))

----------------------------------------------------------------------------
(* Particle emitters                                                       *)

\* one image particle per index; rds and drs are the sampled radii and rotation signs
imagePraticleEmitter(n, rds, drs) ==
    [i \in 1..n |-> [id |-> i, rd |-> rds[i], r |-> 0, dr |-> drs[i]]]

\* n defaults to 1: BlastWave never passes it
radialWaveEmitter(width, hue) ==
    << [id |-> 1, rd |-> 25 * RdScale, width |-> width * 2 * RdScale,
        hue |-> hue * 2 * RdScale, alpha |-> 400 * RdScale] >>

----------------------------------------------------------------------------
(* Burst                                                                   *)

Burst(n, burnRate, rds, drs) ==
    [type |-> "burst", active |-> TRUE, burnRate |-> burnRate, n |-> n,
     parts |-> imagePraticleEmitter(n, rds, drs)]

\* shard.r += 0.1 * shard.dr; shard.rd = Math.abs(shard.rd - burnRate)
AdvanceShard(shard, burnRate) ==
    [shard EXCEPT !.r = (shard.r + shard.dr) % RotSteps,
                  !.rd = Abs(shard.rd - burnRate)]

\* remove burned shards: shard.rd < 1
ShardBurned(shard) == shard.rd < One

----------------------------------------------------------------------------
(* BlastWave                                                               *)

BlastWave(width, hue, burnRate) ==
    [type |-> "blast-wave", active |-> TRUE, burnRate |-> burnRate, n |-> 1,
     parts |-> radialWaveEmitter(width, hue)]

\* wave.rd += burnRate * 8; wave.width -= burnRate / 2;
\* wave.hue -= burnRate / 2; wave.alpha -= burnRate * 0.0075
AdvanceWave(wave, burnRate) ==
    [wave EXCEPT !.rd = wave.rd + 8 * burnRate,
                 !.width = wave.width - burnRate,
                 !.hue = wave.hue - burnRate,
                 !.alpha = wave.alpha - 3 * burnRate]

\* remove wave: wave.width < 1
WaveBurned(wave) == wave.width < 2 * One

----------------------------------------------------------------------------
(* tick(): the result is the effect afterwards, what was drawn and         *)
(* advanced, and which return the call took                                *)

Advance(e, p) ==
    IF e.type = "burst" THEN AdvanceShard(p, e.burnRate) ELSE AdvanceWave(p, e.burnRate)

Burned(e, p) == IF e.type = "burst" THEN ShardBurned(p) ELSE WaveBurned(p)

\* The for loop of tick() (the same in Burst and BlastWave), followed over
\* the positions lo..hi of the array as the tick found it:
\*     for (i = 0; i < parts.length; i++) {
\*         advance parts[i]; if (burned) parts.splice(i, 1); draw it }
\* After a splice the next particle moves into slot i and i++ passes over
\* it: skip says that the particle at lo is in that place. The particle is
\* drawn whether or not it was spliced out. The range is halved rather than
\* walked one by one to keep the evaluation shallow for 200 shards.
RECURSIVE TickLoop(_, _, _, _)
TickLoop(e, lo, hi, skip) ==
    IF lo > hi
    THEN [parts |-> <<>>, drawn |-> <<>>, visited |-> {}, skip |-> skip]
    ELSE IF lo = hi
    THEN IF skip
         THEN [parts |-> <<e.parts[lo]>>, drawn |-> <<>>, visited |-> {},
               skip |-> FALSE]
         ELSE LET p == Advance(e, e.parts[lo])
              IN  [parts |-> IF Burned(e, p) THEN <<>> ELSE <<p>>,
                   drawn |-> <<p.id>>, visited |-> {p.id}, skip |-> Burned(e, p)]
    ELSE LET mid == (lo + hi) \div 2
             l == TickLoop(e, lo, mid, skip)
             r == TickLoop(e, mid + 1, hi, l.skip)
         IN  [parts |-> l.parts \o r.parts, drawn |-> l.drawn \o r.drawn,
              visited |-> l.visited \cup r.visited, skip |-> r.skip]

\* a tick that flags the effect in the tick that removes its last particle
TickFlagsEarly(e) ==
    IF ~e.active
    THEN [fx |-> e, drawn |-> <<>>, visited |-> {}, did |-> "inactive"]
    ELSE LET l == TickLoop(e, 1, Len(e.parts), FALSE)
         IN  [fx |-> [e EXCEPT !.parts = l.parts, !.active = (l.parts # <<>>)],
              drawn |-> l.drawn, visited |-> l.visited, did |-> "ran"]

Tick(e) ==
    IF ~e.active
    THEN [fx |-> e, drawn |-> <<>>, visited |-> {}, did |-> "inactive"]
    ELSE IF Len(e.parts) = 0
    THEN [fx |-> [e EXCEPT !.active = FALSE], drawn |-> <<>>, visited |-> {},
          did |-> "flagged"]
    ELSE LET l == TickLoop(e, 1, Len(e.parts), FALSE)
         IN  [fx |-> [e EXCEPT !.parts = l.parts], drawn |-> l.drawn,
              visited |-> l.visited, did |-> "ran"]

----------------------------------------------------------------------------
(* The effect under test: constructed from sampled inputs, then ticked     *)

FxInit ==
    /\ \/ \E n \in 1..MaxShards, burnRate \in BurnRates :
            \E rds \in [1..n -> RdSamples], drs \in [1..n -> {1, -1}] :
                fx = Burst(n, burnRate, rds, drs)
       \/ \E width \in WaveWidths, burnRate \in WaveBurnRates :
            fx = BlastWave(width, 0, burnRate)
    /\ drawn = <<>>
    /\ visited = {}
    /\ lastTick = "none"
    /\ now = Epoch
    /\ PlIdle /\ ThIdle /\ GameIdle /\ ColIdle /\ AudioIdle

FxTick ==
    LET t == Tick(fx)
    IN  /\ fx' = t.fx
        /\ drawn' = t.drawn
        /\ visited' = t.visited
        /\ lastTick' = t.did
        /\ UNCHANGED <<plVars, now, thrVars, gameVars, colVars, audioVars>>

FxNext == FxTick

\* the frame loop keeps calling tick() for as long as the effect is held
SpecFx == FxInit /\ [][FxNext]_vars /\ WF_vars(FxTick)

----------------------------------------------------------------------------
(* Claims about the effects                                                *)

\* C1 (as stated): every Burst or BlastWave with a non-zero burn rate that is
\* ticked again and again reaches active = false.
C1_EveryEffectEnds == <>(~fx.active)

\* C2: an inactive effect stays inactive, a tick of it draws nothing and
\* changes nothing of it, and only a tick that finds the particle collection
\* empty clears the flag.
C2_InactiveIsFinal ==
    [][ /\ ~fx.active => (fx' = fx /\ drawn' = <<>> /\ visited' = {})
        /\ (fx.active /\ ~fx'.active) => (fx.parts = <<>> /\ drawn' = <<>>) ]_vars

C2_Witness == ~fx.active /\ lastTick = "inactive"

\* C9 (as stated): a tick of an active effect advances and handles every
\* particle that is in the collection when the tick starts.
C9_NoParticleSkipped ==
    [][ (fx.active /\ fx.parts # <<>>) =>
            \A i \in 1..Len(fx.parts) : fx.parts[i].id \in visited' ]_vars

----------------------------------------------------------------------------
(* Sprites: ImageSprite and the three Player classes of the repository     *)

Half == 1                 \* the unit of sprite sizes: half a pixel
Px == Half + Half         \* one pixel
CanvasWidth == 6          \* canvas.width, in pixels
PlayerSize == 2           \* playerSize.width, in pixels
NumImages == 5            \* images: [dizzy, happy, hungry, full, sick]

\* frontend: src/frontend/game/characters/player.js; part_000: src/unnamed/part_000;
\* game: src/game/characters/player.js
PlayerVariants == {"frontend", "part_000", "game"}

\* the sprite's constructor keeps the size and the collision radius (w + h) / 4
ImageSprite(width, height) ==
    [width |-> width, height |-> height, radius4 |-> width + height]

\* bounded(n, min, max)
bounded(n, min, max) == IF n < min THEN min ELSE IF n > max THEN max ELSE n

Min(a, b) == IF a < b THEN a ELSE b

\* Math.round(q) of the quotient q = num / den, den > 0
Round(num, den) == (2 * num + den) \div (2 * den)

\* the index update() computes: i = (width / (canvas.width / 2)) * images.length
SpriteIndex(variant, width, canvas) ==
    LET i == Round(2 * width * NumImages, canvas * Px)
    IN  IF variant = "frontend"
        THEN bounded(i - 1, 0, NumImages - 1)
        ELSE Min(i - 1, NumImages - 1)

\* new Player(options): the sprite, the original size and the first image;
\* canvas is the width of ctx.canvas, the canvas of the game unless changed;
\* src/game/characters/player.js keeps neither the original size nor the images
Player(variant, width, height) ==
    [variant |-> variant, image |-> 0, canvas |-> CanvasWidth,
     originalWidth |-> IF variant = "game" THEN 0 ELSE width,
     originalHeight |-> IF variant = "game" THEN 0 ELSE height]
    @@ ImageSprite(width, height)

update(p) ==
    IF p.variant = "game" THEN p
    ELSE [p EXCEPT !.image = SpriteIndex(p.variant, p.width, p.canvas)]

eat(p) ==
    CASE p.variant = "frontend" ->
            update([p EXCEPT !.width = p.width + Px,
                             !.height = p.height + Px,
                             !.radius4 = (p.width + Px) + (p.height + Px)])
      [] p.variant = "part_000" ->
            update([p EXCEPT !.width = p.width + Px, !.height = p.height + Px])
      [] OTHER ->
            [p EXCEPT !.width = p.width + Half, !.height = p.height + Half]

\* blaze() is a method of the frontend and part_000 classes only
HasBlaze(p) == p.variant \in {"frontend", "part_000"}

blaze(p) ==
    update([p EXCEPT !.width = p.originalWidth, !.height = p.originalHeight])

\* player.blaze() as a caller gets it: a TypeError, and the player as it
\* was, from a class without the method
blazeCall(p) == IF HasBlaze(p) THEN blaze(p) ELSE p

\* the sizes a Player under test is constructed with, in pixels
PlayerSizes == {1, PlayerSize}

WideCanvas == 24          \* a canvas much wider than the player, in pixels

PlInit ==
    /\ \E variant \in PlayerVariants, w \in PlayerSizes, h \in PlayerSizes,
          canvas \in {CanvasWidth, WideCanvas} :
            /\ player = [Player(variant, w * Px, h * Px) EXCEPT !.canvas = canvas]
            /\ plLog = [made |-> <<w * Px, h * Px>>, last |-> "new"]
    /\ now = Epoch
    /\ FxIdle /\ ThIdle /\ GameIdle /\ ColIdle /\ AudioIdle

\* eat() is called for as long as the player fits the canvas
PlEat ==
    /\ player.width < player.canvas * Px
    /\ player' = eat(player)
    /\ plLog' = [plLog EXCEPT !.last = "eat"]
    /\ UNCHANGED <<fxVars, now, thrVars, gameVars, colVars, audioVars>>

PlBlaze ==
    /\ player' = blazeCall(player)
    /\ plLog' = [plLog EXCEPT !.last = "blaze"]
    /\ UNCHANGED <<fxVars, now, thrVars, gameVars, colVars, audioVars>>

PlNext == PlEat \/ PlBlaze

SpecPlayer == PlInit /\ [][PlNext]_vars

\* C10 (as stated): after any sequence of eat() and blaze() calls the radius
\* is (width + height) / 4.
C10_RadiusFollowsSize == player.radius4 = player.width + player.height

\* C11 (as stated): a call of blaze(), after any number of eat() calls,
\* leaves the width and the height the player was constructed with.
C11_BlazeRestores ==
    [][ plLog'.last = "blaze" =>
            /\ player'.width = plLog.made[1]
            /\ player'.height = plLog.made[2] ]_vars

\* C12 (as stated): the image of the player is one of the images supplied:
\* the index update() chose lies in 0 .. images.length - 1.
C12_SpriteInRange == player.image \in 0..(NumImages - 1)

----------------------------------------------------------------------------
(* throttled(delay, fn) of utils/baseUtils.js                              *)

BlastWaveDelay == 600     \* throttled(600, ...)
BurstDelay == 300         \* throttled(300, ...)


\* throttled(delay, fn): the closure starts with lastCall = 0
throttled(delay) == [delay |-> delay, lastCall |-> 0]

\* a gate that restarts the interval at every call
PassesSliding(t, time) == [ran |-> time - t.lastCall >= t.delay, lastCall |-> time]

\* one call of the wrapped function at the clock reading time: whether fn
\* runs, and the closure's lastCall afterwards
Passes(t, time) ==
    IF time - t.lastCall < t.delay
    THEN [ran |-> FALSE, lastCall |-> t.lastCall]
    ELSE [ran |-> TRUE, lastCall |-> time]

ThInit ==
    /\ \E delay \in {BurstDelay, BlastWaveDelay} : thr = throttled(delay)
    /\ thrOut = NoCall
    /\ now = Epoch
    /\ FxIdle /\ PlIdle /\ GameIdle /\ ColIdle /\ AudioIdle

ThTock ==
    /\ now < Epoch + MaxTime
    /\ now' = now + TimeStep
    /\ UNCHANGED <<fxVars, plVars, thrVars, gameVars, colVars, audioVars>>

\* a call of the wrapped function; fn returns "result"
ThCall ==
    LET c == Passes(thr, now)
    IN  /\ thr' = [thr EXCEPT !.lastCall = c.lastCall]
        /\ thrOut' = [ran |-> c.ran,
                      ret |-> IF c.ran THEN "result" ELSE "undefined",
                      ranAt |-> IF c.ran THEN now ELSE thrOut.ranAt]
        /\ UNCHANGED <<fxVars, plVars, now, gameVars, colVars, audioVars>>

ThNext == ThTock \/ ThCall

SpecThrottle == ThInit /\ [][ThNext]_vars

\* C5: a call of the wrapped function runs f and returns its result exactly
\* when f has not run before or at least delay ms have passed since the
\* call that last ran it; any other call returns undefined and leaves the
\* start of the interval where it was; nothing is run between calls.
C5_ThrottledGate ==
    [][ /\ now' # now => (thr' = thr /\ thrOut' = thrOut)
        /\ (now' = now /\ thrOut'.ran) =>
                /\ thrOut.ranAt # -1 => now - thrOut.ranAt >= thr.delay
                /\ thrOut'.ret = "result"
                /\ thrOut'.ranAt = now
        /\ (now' = now /\ ~thrOut'.ran) =>
                /\ thrOut.ranAt # -1
                /\ now - thrOut.ranAt < thr.delay
                /\ thrOut'.ret = "undefined"
                /\ thrOut'.ranAt = thrOut.ranAt
                /\ thr'.lastCall = thr.lastCall ]_vars

\* a call was turned away some time after the call that ran f
C5_Witness ==
    /\ ~thrOut.ran
    /\ thrOut.ret = "undefined"
    /\ thrOut.ranAt # -1
    /\ now > thrOut.ranAt
    /\ thr.lastCall = thrOut.ranAt

----------------------------------------------------------------------------
(***************************************************************************)
(* Obstacle.collidesWith.  A sprite is given by the three properties the   *)
(* method reads: cx, cy and radius, counted in Half pixels.  Math.sqrt of  *)
(* a whole number n is kept as its whole part Sqrt(n): for whole numbers   *)
(* n and r, Math.sqrt(n) < r exactly when Sqrt(n) < r.                     *)
(***************************************************************************)
MaxCenter == 3
MaxRadius == 2

RECURSIVE SqrtFrom(_, _)
SqrtFrom(n, k) == IF (k + 1) * (k + 1) > n THEN k ELSE SqrtFrom(n, k + 1)

Sqrt(n) == SqrtFrom(n, 0)

collidesWithLax(this, entity) ==
    LET vx == entity.cx - this.cx
        vy == entity.cy - this.cy
    IN  Sqrt(vx * vx + vy * vy) <= entity.radius + this.radius

collidesWith(this, entity) ==
    LET vx == entity.cx - this.cx
        vy == entity.cy - this.cy
        distance == Sqrt(vx * vx + vy * vy)
    IN  distance < entity.radius + this.radius

Circles == [cx : 0..MaxCenter, cy : 0..MaxCenter, radius : 0..MaxRadius]

ColInit ==
    /\ \E this \in Circles, entity \in Circles :
            col = [this |-> this, entity |-> entity, calls |-> 0,
                   answer |-> FALSE, before |-> FALSE]
    /\ now = Epoch
    /\ FxIdle /\ PlIdle /\ ThIdle /\ GameIdle /\ AudioIdle

\* this.collidesWith(entity)
ColCall ==
    /\ col.calls = 0
    /\ col' = [col EXCEPT !.answer = collidesWith(col.this, col.entity),
                          !.calls = 1]
    /\ UNCHANGED <<fxVars, plVars, now, thrVars, gameVars, audioVars>>

\* the same question with the two sprites swapped: entity.collidesWith(this)
ColSwap ==
    /\ col.calls = 1
    /\ col' = [this |-> col.entity, entity |-> col.this, calls |-> 2,
               answer |-> collidesWith(col.entity, col.this),
               before |-> col.answer]
    /\ UNCHANGED <<fxVars, plVars, now, thrVars, gameVars, audioVars>>

ColNext == ColCall \/ ColSwap

SpecCollide == ColInit /\ [][ColNext]_vars

\* the square of the distance between the two centers, and the sum of radii
Dist2 == (col.entity.cx - col.this.cx) * (col.entity.cx - col.this.cx)
          + (col.entity.cy - col.this.cy) * (col.entity.cy - col.this.cy)
RadiusSum == col.this.radius + col.entity.radius

\* C13: collidesWith(entity) answers true exactly when the Euclidean
\* distance between the two centers is less than the sum of the two radii
\* (a distance equal to the sum gives false), and the answer is the same when
\* the two sprites are swapped.
C13_CircleCollision ==
    col.calls > 0 =>
        /\ col.answer <=> (Dist2 < RadiusSum * RadiusSum)
        /\ col.calls = 2 => col.answer = col.before

\* a call on two circles that touch: the distance equals the sum of radii
C13_Witness ==
    /\ col.calls = 2
    /\ ~col.answer
    /\ RadiusSum > 0
    /\ Dist2 = RadiusSum * RadiusSum
    /\ col.this # col.entity

----------------------------------------------------------------------------
(* The Game (game/main.js)                                                 *)
(*                                                                         *)
(* game holds the fields of the Game object (state, frame, effects,        *)
(* entities, player, assets: whether images and sounds are loaded), what   *)
(* it reads from its environment (playerClass: the Player class its import *)
(* resolves to, stored: the muted key of localStorage, pending: the frame  *)
(* requests not yet run or cancelled, raf: the last handle                 *)
(* requestAnimationFrame returned, loads: the asset loads not yet settled, *)
(* mounted: the container still holds its nodes) and four records of what  *)
(* the last handler did (newBursts: the shard counts of the Bursts it      *)
(* pushed, burstAt: the clock reading at the last Burst pushed for a       *)
(* collision, hits: the obstacles found colliding, with their munches      *)
(* before and after, threw: it ended in an exception); events counts the   *)
(* input events so far.                                                    *)
(*                                                                         *)
(* The vertical position of an obstacle is counted in cells: it is spawned *)
(* one cell above the canvas and falls one cell in a frame whose scale is  *)
(* positive. The horizontal positions, the input flags that steer the      *)
(* player, the playlist and the audio context are left out; whether a      *)
(* spawn location is crowded and whether an obstacle overlaps the player   *)
(* horizontally are inputs of the frame.                                   *)

FirstHandle == 597        \* the last frame handle handed out before the game starts
MaxFrames == 4            \* frame requests followed
MaxEvents == 3            \* input events followed
GameTime == 100           \* the clock is followed for GameTime ms in a game
CanvasHeight == 1         \* canvas.height, in cells
SpawnY == -1              \* y: -200, one cell above the canvas
Null == -1                \* rate: null, scale: null
MunchPeriod == 600        \* frame.count % 600
MaxObstacles == 6         \* entities.length < 6
MaxMunches == 5           \* entity.munches > 5
FoodShards == 1           \* n: 1
WeedShards == 20          \* n: 20
OverShards == 200         \* n: 200

\* the class './characters/player.js' resolves to
GamePlayerClasses == PlayerVariants

\* the radius the emitter samples for the shards of a Burst of the game
GameRd == RdLo

\* setState(state): { ...this.state, prev: this.state.current, ...state }
setState(g, state) ==
    [g EXCEPT !.state = state @@ [prev |-> g.state.current] @@ g.state]

\* requestFrame(next, resumed): scale is computed from the rate of the frame
\* object that is being replaced; it is kept in units of screen.scale * 0.01.
\* The frame also records whether it was requested by a resume.
requestFrame(g, time, resumed) ==
    [g EXCEPT !.raf = g.raf + 1,
              !.pending = g.pending \cup {g.raf + 1},
              !.frame = [count |-> g.raf + 1,
                         time |-> time,
                         rate |-> IF resumed THEN 0 ELSE time - g.frame.time,
                         scale |-> IF g.frame.rate = Null THEN 0 ELSE g.frame.rate,
                         resumed |-> resumed]]

\* cancelFrame(): cancelAnimationFrame(this.frame.count), whatever the argument
cancelFrame(g) == [g EXCEPT !.pending = g.pending \ {g.frame.count}]

init(g, time) ==
    [g EXCEPT !.frame = [count |-> 0, time |-> time, rate |-> Null,
                         scale |-> Null, resumed |-> FALSE],
              !.state = [current |-> "loading", prev |-> "", score |-> 0,
                         paused |-> FALSE, muted |-> g.stored],
              !.assets = FALSE,
              !.effects = <<>>,
              !.entities = <<>>,
              !.player = NoPlayer]

\* load(): init() and one more load whose settlement is awaited
load(g, time) == [init(g, time) EXCEPT !.loads = @ + 1]

\* this.effects.push(new Burst({ n, burnRate, ... })), as play() does it:
\* the Burst is constructed and pushed whatever the clock reads
pushBurst(g, n, burnRate, time, collision) ==
    [g EXCEPT !.effects = Append(@, Burst(n, burnRate, [i \in 1..n |-> GameRd],
                                          [i \in 1..n |-> 1])),
              !.newBursts = Append(@, n),
              !.burstAt = IF collision THEN time ELSE @]

Obstacle(type) == [type |-> type, y |-> SpawnY, munches |-> 0]

\* entity.move(dx, 1, scale)
move(entity, scale) ==
    [entity EXCEPT !.y = @ + (IF scale # Null /\ scale > 0 THEN 1 ELSE 0)]

munch(entity) == [entity EXCEPT !.munches = @ + 1]

\* collideDistance(entity, player): the obstacle has reached the player's row
\* and overlaps the player horizontally
collideDistance(entity, overlap) == overlap /\ entity.y >= CanvasHeight - 1

\* a spawn step that only knows food
SpawnFood(g, crowded) ==
    LET munchTime == g.frame.count % MunchPeriod = 0
        shouldAddObstacle == Len(g.entities) < MaxObstacles
    IN  IF (munchTime \/ shouldAddObstacle) /\ ~crowded
        THEN [g EXCEPT !.entities = Append(@, Obstacle("food"))]
        ELSE g

SpawnUpToLimit(g, crowded) ==
    LET munchTime == g.frame.count % MunchPeriod = 0
        shouldAddObstacle == Len(g.entities) <= MaxObstacles
    IN  IF (munchTime \/ shouldAddObstacle) /\ ~crowded
        THEN [g EXCEPT !.entities =
                  Append(@, Obstacle(IF munchTime THEN "weed" ELSE "food"))]
        ELSE g

\* the spawn step of play()
Spawn(g, crowded) ==
    LET munchTime == g.frame.count % MunchPeriod = 0
        shouldAddObstacle == Len(g.entities) < MaxObstacles
    IN  IF (munchTime \/ shouldAddObstacle) /\ ~crowded
        THEN [g EXCEPT !.entities =
                  Append(@, Obstacle(IF munchTime THEN "weed" ELSE "food"))]
        ELSE g

\* the effects loop of play() from index i on: tick the effect at i, then
\* splice it out at i if it is inactive; i++ follows either way.  fxTicks
\* counts the tick() calls of the frame, fxTicked lists the effects as each
\* call found them and dropped lists the effects as they were spliced out.
RECURSIVE EffectsLoop(_, _)

\* a loop that never removes an effect
SweepKeeps(g, i) == EffectsLoop(g, i + 1)

\* a removal that looks at the particles and not at the flag
SweepWhenEmpty(g, i) ==
    IF g.effects[i].parts = <<>>
    THEN EffectsLoop([g EXCEPT !.effects = Splice(@, i),
                               !.dropped = Append(@, g.effects[i])], i + 1)
    ELSE EffectsLoop(g, i + 1)

Sweep(g, i) ==
    IF ~g.effects[i].active
    THEN EffectsLoop([g EXCEPT !.effects = Splice(@, i),
                               !.dropped = Append(@, g.effects[i])], i + 1)
    ELSE EffectsLoop(g, i + 1)

EffectsLoop(g, i) ==
    IF i > Len(g.effects) THEN g
    ELSE Sweep([g EXCEPT !.effects[i] = Tick(@).fx,
                         !.fxTicks = @ + 1,
                         !.fxTicked = Append(@, g.effects[i])], i)

TickEffects(g) == EffectsLoop(g, 1)

\* the type-specific reaction of play() to a collision; this.player.blaze()
\* is a TypeError for a Player class without the method, and play() ends there
React(g, entity, time) ==
    IF entity.type = "food"
    THEN pushBurst([g EXCEPT !.player = eat(@)],
                   FoodShards, FoodBurnRate, time, TRUE)
    ELSE IF HasBlaze(g.player)
    THEN pushBurst([g EXCEPT !.player = blaze(@)],
                   WeedShards, WeedBurnRate, time, TRUE)
    ELSE [g EXCEPT !.threw = TRUE]

\* the reaction of play() to a collision with entity, after entity.munch()
Collision(g, entity, time) ==
    React(setState(g, [score |-> g.state.score + 1]), entity, time)

\* entity.munch() on the obstacle at i, found colliding
Hit(g, i, moved) ==
    [g EXCEPT !.entities[i] = munch(moved),
              !.hits = Append(@, [type |-> moved.type, was |-> moved.munches,
                                  munches |-> munch(moved).munches])]

\* the entities loop of play() from index i on; overlaps[k] is the horizontal
\* overlap of the obstacle now at k with the player
RECURSIVE EntitiesLoop(_, _, _, _)

\* a removal that looks at the position only
CullExitsOnly(g, overlaps, i, time) ==
    IF g.threw THEN g
    ELSE IF g.entities[i].y > CanvasHeight
    THEN EntitiesLoop([g EXCEPT !.entities = Splice(@, i)], Splice(overlaps, i),
                      i + 1, time)
    ELSE EntitiesLoop(g, overlaps, i + 1, time)

\* remove in-active entity: splice at i; i++ follows either way
Cull(g, overlaps, i, time) ==
    IF g.threw THEN g
    ELSE IF g.entities[i].y > CanvasHeight \/ g.entities[i].munches > MaxMunches
    THEN EntitiesLoop([g EXCEPT !.entities = Splice(@, i)], Splice(overlaps, i),
                      i + 1, time)
    ELSE EntitiesLoop(g, overlaps, i + 1, time)

\* the body of the loop for the obstacle at i, moved
Visit(g, overlaps, i, time, moved) ==
    IF collideDistance(moved, overlaps[i])
    THEN Cull(Collision(Hit(g, i, moved), moved, time), overlaps, i, time)
    ELSE Cull([g EXCEPT !.entities[i] = moved], overlaps, i, time)

EntitiesLoop(g, overlaps, i, time) ==
    IF i > Len(g.entities) THEN g
    ELSE Visit([g EXCEPT !.visits = @ + 1], overlaps, i, time,
               move(g.entities[i], g.frame.scale))

\* the entities loop from its start; passLen is entities.length at that point
EntitiesPass(g, overlaps, time) ==
    EntitiesLoop([g EXCEPT !.passLen = Len(g.entities)], overlaps, 1, time)

\* a check for game over that leaves the state as it is
GameOverStays(g, time) ==
    IF 2 * g.player.width > CanvasWidth * Px
    THEN pushBurst(g, OverShards, WeedBurnRate, time, FALSE)
    ELSE g

\* check for game over: player.width > canvas.width / 2
GameOver(g, time) ==
    IF 2 * g.player.width > CanvasWidth * Px
    THEN setState(pushBurst(g, OverShards, WeedBurnRate, time, FALSE),
                  [current |-> "over"])
    ELSE g

ReadyBlock(g) ==
    IF g.state.current = "ready" /\ g.state.prev \in {"loading", "over"}
    THEN setState(g, [current |-> "ready"])
    ELSE g

\* if last state was 'ready': setState({ current: 'play' })
Started(g) ==
    IF g.state.prev = "ready" THEN setState(g, [current |-> "play"]) ELSE g

CheckOver(g, time) == IF g.threw THEN g ELSE GameOver(g, time)

PlayBlock(g, time, crowded, overlaps) ==
    IF g.state.current # "play" THEN g
    ELSE CheckOver(EntitiesPass(TickEffects(Spawn(Started(g), crowded)),
                                overlaps, time), time)

OverBlock(g) ==
    IF g.threw \/ g.state.current # "over" THEN g ELSE TickEffects(g)

\* the end of play(): cancel the frame on stop, request the next otherwise
NextFrame(g, time) ==
    IF g.threw THEN g
    ELSE IF g.state.current = "stop" THEN cancelFrame(g)
    ELSE requestFrame(g, time, FALSE)

\* play(): one frame
play(g, time, crowded, overlaps) ==
    NextFrame(OverBlock(PlayBlock(ReadyBlock(g), time, crowded, overlaps)), time)

\* create(): the player, then setState({ current: 'ready' }) and play()
create(g, time) ==
    LET g1 == [g EXCEPT !.player = Player(g.playerClass, PlayerSize * Px,
                                          PlayerSize * Px)]
    IN  play(setState(g1, [current |-> "ready"]), time, FALSE, <<>>)

\* pause()
pause(g, time) ==
    IF g.state.current # "play" THEN g
    ELSE IF ~g.state.paused
    THEN cancelFrame([g EXCEPT !.state.paused = TRUE])
    ELSE requestFrame([g EXCEPT !.state.paused = FALSE], time, TRUE)

\* mute()
mute(g) == [g EXCEPT !.stored = ~@, !.state.muted = ~g.stored]

\* a click handler that does not look at the state first
handleClicksWhileLoading(g, target, time) ==
    CASE target = "mute" -> mute(g)
      [] target = "pause" -> pause(g, time)
      [] target = "button" -> setState(g, [current |-> "play"])

\* handleClicks(e)
handleClicks(g, target, time) ==
    IF g.state.current = "loading" THEN g
    ELSE CASE target = "mute" -> mute(g)
           [] target = "pause" -> pause(g, time)
           [] target = "button" -> setState(g, [current |-> "play"])

\* handleKeyboardInput(type, code): pause on the space key in play
PauseKey(g, type, code, time) ==
    IF type = "keyup" /\ g.state.current = "play" /\ code = "Space"
    THEN pause(g, time) ELSE g

\* start game on ready
StartKey(g, type) ==
    IF type = "keydown" /\ g.state.current = "ready"
    THEN setState(g, [current |-> "play"]) ELSE g

\* reload on game over
ReloadKey(g, type, time) ==
    IF type = "keydown" /\ g.state.current = "over" /\ Len(g.effects) = 1
    THEN load(g, time) ELSE g

handleKeyboardInput(g, type, code, time) ==
    ReloadKey(StartKey(PauseKey(g, type, code, time), type), type, time)

\* destroy(): the listeners it names were never registered, so they stay
destroy(g) ==
    [setState(g, [current |-> "stop"]) EXCEPT !.mounted = FALSE]

\* new Game(...) and the page's first load(); stored is what localStorage
\* holds under the muted key: nothing on a first visit
Constructed(playerClass, stored) ==
    [playerClass |-> playerClass, stored |-> stored, mounted |-> TRUE,
     pending |-> {}, raf |-> FirstHandle, loads |-> 0, events |-> 0,
     newBursts |-> <<>>, burstAt |-> Null, hits |-> <<>>, threw |-> FALSE,
     visits |-> 0, passLen |-> 0,
     fxTicks |-> 0, fxTicked |-> <<>>, dropped |-> <<>>,
     frame |-> [count |-> 0], state |-> [current |-> ""], assets |-> FALSE,
     effects |-> <<>>, entities |-> <<>>, player |-> NoPlayer]

GameInit ==
    /\ \E playerClass \in GamePlayerClasses :
            game = load(Constructed(playerClass, FALSE), Epoch)
    /\ now = Epoch
    /\ FxIdle /\ PlIdle /\ ThIdle /\ ColIdle /\ AudioIdle

\* a handler starts with nothing pushed and nothing thrown
Begin(g) ==
    [g EXCEPT !.newBursts = <<>>, !.hits = <<>>, !.threw = FALSE,
              !.visits = 0, !.passLen = 0,
              !.fxTicks = 0, !.fxTicked = <<>>, !.dropped = <<>>]
Event(g) == [Begin(g) EXCEPT !.events = @ + 1]

CanRequest == game.raf < FirstHandle + MaxFrames
CanEvent == game.events < MaxEvents

Others == <<fxVars, plVars, thrVars, colVars, audioVars>>

Tock ==
    /\ now < Epoch + GameTime
    /\ now' = now + TimeStep
    /\ UNCHANGED <<game, Others>>

\* the asset load settles: .then(() => this.create())
Create ==
    /\ game.loads > 0
    /\ CanRequest
    /\ game' = create([Begin(game) EXCEPT !.loads = @ - 1, !.assets = TRUE], now)
    /\ UNCHANGED <<now, Others>>

\* the asset load is rejected: .catch(err => console.error(err))
LoadFails ==
    /\ game.loads > 0
    /\ game' = [Begin(game) EXCEPT !.loads = @ - 1]
    /\ UNCHANGED <<now, Others>>

\* a requested frame runs play(); with no images loaded, drawImage throws
\* before play() changes anything
Frame ==
    /\ CanRequest
    /\ \E h \in game.pending :
        LET g == [Begin(game) EXCEPT !.pending = @ \ {h}]
        IN  IF ~g.assets
            THEN game' = g
            ELSE \E crowded \in BOOLEAN :
                    /\ crowded => (g.state.current = "play" /\ g.entities # <<>>)
                    /\ LET spawned == Spawn(g, crowded).entities
                       IN  \E overlaps \in [1..Len(spawned) -> BOOLEAN] :
                            /\ \A k \in 1..Len(spawned) :
                                    overlaps[k] => /\ g.state.current = "play"
                                                   /\ spawned[k].y + 1 >= CanvasHeight - 1
                            /\ game' = play(g, now, crowded, overlaps)
    /\ UNCHANGED <<now, Others>>

Click ==
    /\ CanEvent
    /\ game.mounted
    /\ \E target \in {"mute", "pause", "button"} :
        /\ (target = "pause" /\ game.state.current = "play" /\ game.state.paused)
                => CanRequest
        /\ game' = handleClicks(Event(game), target, now)
    /\ UNCHANGED <<now, Others>>

KeyDown ==
    /\ CanEvent
    /\ game' = handleKeyboardInput(Event(game), "keydown", "Enter", now)
    /\ UNCHANGED <<now, Others>>

KeyUpSpace ==
    /\ CanEvent
    /\ (game.state.current = "play" /\ game.state.paused) => CanRequest
    /\ game' = handleKeyboardInput(Event(game), "keyup", "Space", now)
    /\ UNCHANGED <<now, Others>>

\* Koji.on('change', ...): cancelFrame() and load()
KojiChange ==
    /\ CanEvent
    /\ game' = load(cancelFrame(Event(game)), now)
    /\ UNCHANGED <<now, Others>>

Destroy ==
    /\ CanEvent
    /\ game.mounted
    /\ game' = destroy(Event(game))
    /\ UNCHANGED <<now, Others>>

Next ==
    \/ Tock \/ Create \/ LoadFails \/ Frame \/ Click \/ KeyDown \/ KeyUpSpace
    \/ KojiChange \/ Destroy

Spec == GameInit /\ [][Next]_vars

----------------------------------------------------------------------------
(***************************************************************************)
(* The spawn step of play() on its own: a game in play with any list of    *)
(* obstacles of up to MaxEntities and any frame count around a multiple of *)
(* MunchPeriod.  Only the fields the step reads are kept.                  *)
(***************************************************************************)
MaxEntities == 7

RECURSIVE ObstacleLists(_)
ObstacleLists(n) ==
    IF n = 0 THEN {<<>>}
    ELSE LET shorter == ObstacleLists(n - 1)
         IN  shorter \cup
             {Append(es, Obstacle(type)) :
                  es \in {l \in shorter : Len(l) = n - 1},
                  type \in {"food", "weed"}}

SpawnInit ==
    /\ \E count \in FirstHandle..(FirstHandle + MaxFrames),
          entities \in ObstacleLists(MaxEntities) :
            game = [mounted |-> TRUE, step |-> "frame",
                    state |-> [current |-> "play"],
                    frame |-> [count |-> count],
                    entities |-> entities, had |-> entities]
    /\ now = Epoch
    /\ FxIdle /\ PlIdle /\ ThIdle /\ ColIdle /\ AudioIdle

\* lines 343-396 of play(); crowded is what entities.some(...) answers for
\* the random location
SpawnStep ==
    /\ game.step = "frame"
    /\ \E crowded \in BOOLEAN :
            game' = [Spawn(game, crowded) EXCEPT !.step = "spawned"]
    /\ UNCHANGED <<now, Others>>

SpecSpawn == SpawnInit /\ [][SpawnStep]_vars

\* C14: when a play frame starts with six or more obstacles and its frame
\* count is not a multiple of 600, the spawn step adds no obstacle.
C14_NoSpawnWhenFull ==
    (/\ game.step = "spawned"
     /\ Len(game.had) >= 6
     /\ game.frame.count % 600 # 0) => game.entities = game.had

\* the spawn step has run on six obstacles in the frame after a multiple of
\* 600 and has left them as they were
C14_Witness ==
    /\ game.step = "spawned"
    /\ Len(game.had) = 6
    /\ game.frame.count % 600 = 1
    /\ game.entities = game.had

----------------------------------------------------------------------------
(* Claims about the game                                                   *)
(*                                                                         *)
(* A step runs a frame when it takes a frame request out of pending and is *)
(* neither an input event nor the settlement of a load; the frame runs the *)
(* play block when the assets are loaded and current is play.              *)

\* C3 (as stated): in a play frame in which only food collides with the
\* player, every colliding obstacle's munches grow by 1 and, for each of
\* them, the score grows by 1, the player's width and height grow by one
\* pixel and one Burst of one shard is pushed.
C3_FoodCollision ==
    [][ LET hits == game'.hits
            k == Len(hits)
            pushed == {i \in 1..Len(game'.newBursts) :
                            game'.newBursts[i] = FoodShards}
        IN  (game' # game /\ k > 0 /\ \A i \in 1..k : hits[i].type = "food") =>
                /\ \A i \in 1..k : hits[i].munches = hits[i].was + 1
                /\ game'.state.score = game.state.score + k
                /\ game'.player.width = game.player.width + k * Px
                /\ game'.player.height = game.player.height + k * Px
                /\ Cardinality(pushed) = k ]_vars

\* C4: a play frame that ends its entity pass with the player wider than
\* half the canvas leaves current = over and pushes exactly one Burst of
\* OverShards shards; a step that starts and ends in over pushes none.
C4_GameOverOnce ==
    [][ LET ranFrame == /\ game'.events = game.events
                        /\ game'.loads = game.loads
                        /\ game'.pending # game.pending
            pushed == {i \in 1..Len(game'.newBursts) :
                            game'.newBursts[i] = OverShards}
        IN  /\ ( /\ ranFrame /\ game.assets /\ game.state.current = "play"
                 /\ ~game'.threw
                 /\ 2 * game'.player.width > CanvasWidth * Px ) =>
                    /\ game'.state.current = "over"
                    /\ game'.state.prev = "play"
                    /\ Cardinality(pushed) = 1
            /\ ( /\ game' # game
                 /\ game.state.current = "over"
                 /\ game'.state.current = "over" ) => pushed = {} ]_vars

\* the game is over and a later frame has ticked the Burst of the game over
C4_Witness ==
    /\ game.state.current = "over"
    /\ game.state.prev = "play"
    /\ game.newBursts = <<>>
    /\ \E i \in 1..Len(game.effects) :
            /\ game.effects[i].n = OverShards
            /\ Len(game.effects[i].parts) = OverShards
            /\ game.effects[i].parts[1].rd < GameRd - 2 * WeedBurnRate

\* C6 (as stated): a step pushes at most one Burst for a collision, and
\* none less than BurstDelay ms after the last one pushed for a collision.
C6_CollisionBurstsThrottled ==
    [][ LET pushed == {i \in 1..Len(game'.newBursts) :
                            game'.newBursts[i] \in {FoodShards, WeedShards}}
        IN  (game' # game /\ pushed # {}) =>
                /\ Cardinality(pushed) = 1
                /\ game.burstAt # Null => now - game.burstAt >= BurstDelay ]_vars

\* C7 (as stated): once current is stop it stays stop, and no frame is
\* requested.
C7_StopIsTerminal ==
    [][ game.state.current = "stop" =>
            /\ game'.state.current = "stop"
            /\ game'.pending \subseteq game.pending ]_vars

\* C8 (as stated): while paused is true no frame request is outstanding,
\* and as long as it stays true the entities, the effects, the score and
\* the player stay as they are.
C8_PausedHoldsFrames ==
    [][ game.state.paused =>
            /\ game.pending = {}
            /\ game'.state.paused =>
                    /\ game'.entities = game.entities
                    /\ game'.effects = game.effects
                    /\ game'.state.score = game.state.score
                    /\ game'.player = game.player ]_vars


----------------------------------------------------------------------------
(***************************************************************************)
(* Frames of a game that is already in play.  The game starts with up to   *)
(* MaxPass obstacles on the canvas, the oldest first and lowest, and a     *)
(* munched obstacle is one that has reached the player's row.  With a      *)
(* Player class that has no blaze() the first munch of a weed ends the     *)
(* frame, so such a game starts with no munched weed.                      *)
(***************************************************************************)
MaxPass == 2
PassFrames == 2           \* frames followed from there

Falling ==
    {e \in [type : {"food", "weed"}, y : SpawnY..CanvasHeight,
            munches : {0, MaxMunches}] :
        e.munches > 0 => e.y >= CanvasHeight - 1}

RECURSIVE FallingLists(_)
FallingLists(n) ==
    IF n = 0 THEN {<<>>}
    ELSE LET shorter == FallingLists(n - 1)
         IN  shorter \cup
             {Append(es, e) :
                  es \in {l \in shorter : Len(l) = n - 1},
                  e \in Falling}

Falls(es) == \A k \in 1..(Len(es) - 1) : es[k].y >= es[k + 1].y

NoMunchedWeed(es) ==
    \A k \in 1..Len(es) : es[k].type = "weed" => es[k].munches = 0

\* the game after load(), create() and the start of play
InPlay(playerClass, entities, rate) ==
    LET loaded == [load(Constructed(playerClass, FALSE), Epoch)
                       EXCEPT !.loads = 0, !.assets = TRUE]
    IN  [create(loaded, Epoch) EXCEPT !.state.current = "play",
                                      !.state.prev = "play",
                                      !.entities = entities,
                                      !.frame.rate = rate,
                                      !.frame.scale = rate]

PassInit ==
    /\ \E playerClass \in GamePlayerClasses, rate \in {0, TimeStep},
          entities \in {es \in FallingLists(MaxPass) : Falls(es)} :
            /\ ~HasBlaze(Player(playerClass, PlayerSize * Px, PlayerSize * Px))
                    => NoMunchedWeed(entities)
            /\ game = InPlay(playerClass, entities, rate)
    /\ now = Epoch
    /\ FxIdle /\ PlIdle /\ ThIdle /\ ColIdle /\ AudioIdle

PassFrame ==
    /\ game.raf < FirstHandle + 1 + PassFrames
    /\ Frame

PassNext == PassFrame

SpecPass == PassInit /\ [][PassNext]_vars

\* C18 (as stated): a play frame ticks every effect before it updates any
\* obstacle, and it moves, draws and collision-tests every obstacle that is
\* in entities when the entity pass starts exactly once, in array order: a
\* frame that ran to its end made as many visits as the pass had obstacles.
C18_EveryObstacleVisited ==
    ~game.threw => game.visits = game.passLen

\* C20: at the end of a play frame no obstacle left in entities has more than
\* 5 munches or lies below the bottom edge of the canvas.
C20_NoStaleObstacle ==
    (game.state.current \in {"play", "over"} /\ ~game.threw) =>
        \A k \in 1..Len(game.entities) :
            /\ game.entities[k].munches <= 5
            /\ game.entities[k].y <= CanvasHeight

\* a frame has run to its end in which an obstacle was munched a sixth time
\* and removed, and other obstacles are left
C20_Witness ==
    /\ ~game.threw
    /\ game.passLen > Len(game.entities)
    /\ game.entities # <<>>
    /\ \E k \in 1..Len(game.hits) : game.hits[k].munches > 5

----------------------------------------------------------------------------
(***************************************************************************)
(* Frames of a game in play or over whose effects are near their end.      *)
(* An effect of the game is a Burst of pushBurst: its shards start at      *)
(* GameRd and lose burnRate at every tick that reaches them.  The game     *)
(* starts with up to MaxGlow such effects, each numbered by tag, holding   *)
(* no shard or shards that have left ticks to go before they burn.         *)
(***************************************************************************)
MaxGlow == 2
GlowFrames == 6           \* frames followed from there

\* a shard of a game Burst that burns at tick number left + 1 from now
AgedShard(id, burnRate, left) ==
    [id |-> id, rd |-> One + left * burnRate,
     r |-> ((GameRd - One - left * burnRate) \div burnRate) % RotSteps,
     dr |-> 1]

\* the Burst of a collision after the ticks that leave it with the given shards
AgedBurst(n, burnRate, lefts) ==
    [Burst(n, burnRate, [i \in 1..n |-> GameRd], [i \in 1..n |-> 1])
        EXCEPT !.parts = [i \in 1..Len(lefts) |->
                              AgedShard(i, burnRate, lefts[i])]]

Fading ==
    {AgedBurst(FoodShards, FoodBurnRate, lefts) : lefts \in {<<>>, <<0>>, <<1>>}}
    \cup {AgedBurst(WeedShards, WeedBurnRate, lefts) : lefts \in {<<>>, <<0, 0>>}}

Tagged(es) == [k \in 1..Len(es) |-> [tag |-> k] @@ es[k]]

RECURSIVE FadingLists(_)
FadingLists(n) ==
    IF n = 0 THEN {<<>>}
    ELSE LET shorter == FadingLists(n - 1)
         IN  shorter \cup
             {Append(es, e) :
                  es \in {l \in shorter : Len(l) = n - 1}, e \in Fading}

InGlow(playerClass, current, effects) ==
    [InPlay(playerClass, <<>>, 0) EXCEPT !.state.current = current,
                                         !.effects = Tagged(effects)]

GlowInit ==
    /\ \E playerClass \in GamePlayerClasses, current \in {"play", "over"},
          effects \in FadingLists(MaxGlow) :
            game = InGlow(playerClass, current, effects)
    /\ now = Epoch
    /\ FxIdle /\ PlIdle /\ ThIdle /\ ColIdle /\ AudioIdle

GlowFrame ==
    /\ game.raf < FirstHandle + 1 + GlowFrames
    /\ game' = play([Begin(game) EXCEPT !.pending = @ \ {game.frame.count}],
                    now, FALSE, [k \in 1..(Len(game.entities) + 1) |-> FALSE])
    /\ UNCHANGED <<now, Others>>

GlowNext == GlowFrame

SpecGlow == GlowInit /\ [][GlowNext]_vars

\* the same frames for a game that is in over from the start; a requested
\* animation frame is run in the end
OverInit == GlowInit /\ game.state.current = "over"

SpecOver == OverInit /\ [][GlowNext]_vars /\ WF_vars(GlowFrame)

----------------------------------------------------------------------------
(***************************************************************************)
(* The playlist of the Game.  An entry is a sound being played: its id     *)
(* (Math.random() in the code, a counter here) and its key.  paused holds  *)
(* the ids of the sounds on which playback.pause() was called.             *)
(***************************************************************************)
MaxSounds == 3

SoundKeys == {"backgroundMusic", "munchSound", "gameOverSound"}

\* playback(key, audioBuffer, options)
playback(a, key) ==
    IF a.muted THEN a
    ELSE [a EXCEPT !.playlist = Append(@, [id |-> a.nextId, key |-> key]),
                   !.nextId = @ + 1]

\* stopPlayback(key): the filter pauses the entries with the key and returns
\* targetBuffer, so these are the entries it keeps
stopPlayback(a, key) ==
    [a EXCEPT !.playlist = SelectSeq(@, LAMBDA s : s.key = key),
              !.paused = @ \cup {a.playlist[i].id : i \in
                                    {j \in 1..Len(a.playlist) :
                                         a.playlist[j].key = key}}]

\* the callback of audioPlayback when the sound with this id has played
ended(a, id) == [a EXCEPT !.playlist = SelectSeq(@, LAMBDA s : s.id # id)]

AudioInit ==
    /\ \E muted \in BOOLEAN :
            audio = [playlist |-> <<>>, paused |-> {}, nextId |-> 1,
                     muted |-> muted, last |-> [op |-> "new", key |-> ""]]
    /\ now = Epoch
    /\ FxIdle /\ PlIdle /\ ThIdle /\ GameIdle /\ ColIdle

AudioRest == <<fxVars, plVars, now, thrVars, gameVars, colVars>>

Playback ==
    /\ audio.nextId <= MaxSounds
    /\ \E key \in SoundKeys :
            audio' = [playback(audio, key) EXCEPT
                          !.last = [op |-> "playback", key |-> key]]
    /\ UNCHANGED AudioRest

StopPlayback ==
    /\ \E key \in SoundKeys :
            audio' = [stopPlayback(audio, key) EXCEPT
                          !.last = [op |-> "stopPlayback", key |-> key]]
    /\ UNCHANGED AudioRest

\* the sounds of the game-over step of play()
OverSounds ==
    /\ audio.nextId <= MaxSounds
    /\ audio' = [stopPlayback(playback(audio, "gameOverSound"),
                              "backgroundMusic") EXCEPT
                     !.last = [op |-> "over", key |-> "backgroundMusic"]]
    /\ UNCHANGED AudioRest

Ended ==
    /\ \E i \in 1..Len(audio.playlist) :
            audio' = [ended(audio, audio.playlist[i].id) EXCEPT
                          !.last = [op |-> "ended", key |-> audio.playlist[i].key]]
    /\ UNCHANGED AudioRest

\* the mute button: this.state.muted is flipped
MuteSounds ==
    /\ audio' = [audio EXCEPT !.muted = ~@, !.last = [op |-> "mute", key |-> ""]]
    /\ UNCHANGED AudioRest

AudioNext == Playback \/ StopPlayback \/ OverSounds \/ Ended \/ MuteSounds

SpecAudio == AudioInit /\ [][AudioNext]_vars

\* C23 (as stated): stopPlayback(key) pauses and removes every entry whose
\* key is key and leaves every other entry in the playlist, not paused; so
\* after the game-over step no backgroundMusic entry is in the playlist.
C23_StopRemovesKey ==
    [][ /\ audio'.last.op = "stopPlayback" =>
            /\ audio'.playlist =
                    SelectSeq(audio.playlist, LAMBDA s : s.key # audio'.last.key)
            /\ \A i \in 1..Len(audio.playlist) :
                    audio.playlist[i].id \in audio'.paused
                        <=> \/ audio.playlist[i].id \in audio.paused
                            \/ audio.playlist[i].key = audio'.last.key
        /\ audio'.last.op = "over" =>
            \A i \in 1..Len(audio'.playlist) :
                audio'.playlist[i].key # "backgroundMusic" ]_vars

----------------------------------------------------------------------------
(***************************************************************************)
(* Frames of a game in play whose canvas is nearly full or full: five or   *)
(* six fresh food obstacles, the oldest first and lowest, shortly before   *)
(* or at a frame count that is a multiple of MunchPeriod.  No obstacle     *)
(* overlaps the player in these frames.                                    *)
(***************************************************************************)
CrowdFrames == 2          \* frames followed from there

FreshFood == {[Obstacle("food") EXCEPT !.y = y] : y \in SpawnY..CanvasHeight}

RECURSIVE CrowdLists(_)
CrowdLists(n) ==
    IF n = 0 THEN {<<>>}
    ELSE {Append(es, e) : es \in CrowdLists(n - 1), e \in FreshFood}

InCrowd(playerClass, entities, count) ==
    [InPlay(playerClass, entities, 0) EXCEPT !.raf = count,
                                              !.pending = {count},
                                              !.frame.count = count]

CrowdInit ==
    /\ \E playerClass \in GamePlayerClasses,
          n \in {MaxObstacles - 1, MaxObstacles},
          count \in {MunchPeriod - 1, MunchPeriod} :
            \E entities \in {es \in CrowdLists(n) : Falls(es)} :
                game = InCrowd(playerClass, entities, count)
    /\ now = Epoch
    /\ FxIdle /\ PlIdle /\ ThIdle /\ ColIdle /\ AudioIdle

CrowdFrame ==
    /\ game.raf < MunchPeriod - 1 + CrowdFrames
    /\ \E crowded \in BOOLEAN :
            game' = play([Begin(game) EXCEPT !.pending = @ \ {game.frame.count}],
                         now, crowded,
                         [k \in 1..(Len(game.entities) + 1) |-> FALSE])
    /\ UNCHANGED <<now, Others>>

SpecCrowd == CrowdInit /\ [][CrowdFrame]_vars

\* C26 (as stated): at the end of a play frame there are never more than 6
\* obstacles in entities.
C26_AtMostSixObstacles ==
    game.state.current = "play" => Len(game.entities) <= 6

\* the GameState fields other than prev
StateFields(g) ==
    <<g.state.current, g.state.score, g.state.paused, g.state.muted>>

\* C15 (as stated): every change of current, score, paused or muted is made
\* by setState, which sets prev to the value current had just before the
\* call.  No handler of the game moves current more than once, so a handler
\* that changes one of the four fields outside init() ends with prev equal
\* to the value current had when it began or to the one it has at its end.
C15_SetStateOnly ==
    [][ (game'.loads <= game.loads /\ StateFields(game') # StateFields(game))
            => game'.state.prev \in {game.state.current, game'.state.current}
      ]_vars

\* C16 (as stated): the scale of the frame that is waiting to run is zero
\* exactly when the frame was requested by a resume from pause; the scale of
\* any other frame is screen.scale * 0.01 times the time between its request
\* and the request before it.
C16_ScaleZeroOnlyOnResume ==
    game.frame.count \in game.pending =>
        /\ game.frame.scale = 0 <=> game.frame.resumed
        /\ ~game.frame.resumed => game.frame.scale = game.frame.rate


\* the load started last has been rejected, and create() has not run since
\* the init() of that load
LoadRejected == game.loads = 0 /\ ~game.assets

\* C17: once the asset load started by load() has been rejected, create() is
\* not invoked for it and the game stays in loading, whatever is clicked or
\* typed: current does not become ready, play or over, and there is no
\* player, no obstacle and no effect.  Only destroy() moves current, to stop.
C17_RejectedLoadStaysLoading ==
    LoadRejected =>
        /\ game.state.current = (IF game.mounted THEN "loading"
                                 ELSE game.state.current)
        /\ game.state.current \in {"loading", "stop"}
        /\ game.player = NoPlayer
        /\ game.entities = <<>>
        /\ game.effects = <<>>

\* a rejected load, with every input event of the run handled
C17_Witness ==
    /\ LoadRejected
    /\ game.mounted
    /\ game.events = MaxEvents
    /\ game.state.current = "loading"


\* C19 (as stated): current changes only along loading to ready, ready to
\* play, play to over, any state to stop and any state to loading; play is
\* entered only from ready and over only from play.
C19_StateEdges ==
    [][ game'.state.current # game.state.current =>
            \/ game'.state.current \in {"stop", "loading"}
            \/ <<game.state.current, game'.state.current>> \in
                    {<<"loading", "ready">>, <<"ready", "play">>,
                     <<"play", "over">>} ]_vars


\* the effect with this tag is in effects and its flag has this value
Held(g, tag, active) ==
    \E j \in 1..Len(g.effects) :
        g.effects[j].tag = tag /\ g.effects[j].active = active

C22_RemovedNotDrawn ==
    [][ fx.active =>
            \A k \in 1..Len(drawn') :
                \E i \in 1..Len(fx'.parts) : fx'.parts[i].id = drawn'[k] ]_vars


\* C24: if the game stays in over and frames keep running, the effects
\* collection eventually becomes empty: every effect that is there on entry
\* to over reaches active = false and is dropped.
C24_OverDrainsEffects ==
    (game.state.current = "over") ~> (game.effects = <<>>)

\* a frame run in over has dropped the last effect
C24_Witness ==
    /\ game.state.current = "over"
    /\ game.effects = <<>>
    /\ game.dropped # <<>>


\* C25: the spawn step of a play frame adds at most one obstacle; in a frame
\* whose count is a multiple of 600 it can only add a weed, and in any other
\* frame it can only add food.
C25_OneObstaclePerFrame ==
    game.step = "spawned" =>
        \/ game.entities = game.had
        \/ /\ game.frame.count % 600 = 0
           /\ game.entities = Append(game.had, Obstacle("weed"))
        \/ /\ game.frame.count % 600 # 0
           /\ game.entities = Append(game.had, Obstacle("food"))

\* the spawn step has added a weed in a frame whose count is a multiple of 600
C25_Witness ==
    /\ game.step = "spawned"
    /\ game.frame.count % 600 = 0
    /\ game.entities = Append(game.had, Obstacle("weed"))


\* C27 (as stated): at any time at most one frame callback is scheduled: no
\* sequence of events leaves two play() loops rescheduling themselves side
\* by side.
C27_OneFrameLoop == Cardinality(game.pending) <= 1


\* the number of tick() calls the frame made on the effect with this tag
TicksOf(g, tag) ==
    Cardinality({k \in 1..Len(g.fxTicked) : g.fxTicked[k].tag = tag})

\* C28 (as stated): a frame run in play or over ticks each effect that is in
\* effects when the frame starts exactly once, also when another effect is
\* dropped in that frame and when the frame changes play to over.
C28_EachEffectTickedOnce ==
    [][ game'.raf # game.raf =>
            \A j \in 1..Len(game.effects) :
                TicksOf(game', game.effects[j].tag) = 1 ]_vars

=============================================================================
